---- MODULE Spec2Model ----
(***************************************************************************)
(* The authentication service of AJHB (src/backendauth.py) as a state      *)
(* machine: the three SQLite tables, the wall clock, the process-wide       *)
(* signing secret, and one action per boot / request handler; its          *)
(* encryption helpers; the connection, lock and retry handling of the      *)
(* request handlers of the accounting, sales and authentication services   *)
(* (src/backendconta.py, src/backendventas.py); and the start of the       *)
(* secretarial service (src/backendsecretarios.py).                        *)
(*                                                                         *)
(* Modelling conventions                                                   *)
(*  - a table is a sequence of rows, the row's id is its position (ids are *)
(*    AUTOINCREMENT and no handler deletes a row);                         *)
(*  - SQL NULL / Python None is the string None for text columns, 0 for    *)
(*    integer references and -1 for dates;                                 *)
(*  - the clock counts whole seconds (strftime('%Y-%m-%d %H:%M:%S') and    *)
(*    the JWT exp claim both drop the sub-second part);                    *)
(*  - columns email, fecha_creacion, ip_address, user_agent and the fecha  *)
(*    of logs_acceso carry request or clock data no handler ever branches  *)
(*    on and are left out;                                                 *)
(*  - PBKDF2-HMAC-SHA256 and HMAC-SHA256 are modelled as injective in the  *)
(*    key block and the message: the digest is the pair of the two, a      *)
(*    signature names its key;                                             *)
(*  - a handler is an operator from the request (and the state it reads)   *)
(*    to its result: the HTTP status and body it answers with and the      *)
(*    tables and clock it leaves; Serve turns a result into a step.        *)
(***************************************************************************)
EXTENDS Integers, Sequences, FiniteSets, TLC

VARIABLES
    usuarios,       \* table usuarios
    sesiones,       \* table sesiones
    logs_acceso,    \* table logs_acceso
    clock,          \* wall clock, seconds
    JWT_SECRET,     \* the running process's signing secret
    exp_inclusive,  \* the installed PyJWT rejects a token at now = exp
    steps,          \* boots and table-changing handler runs so far
    AES_KEY,        \* the running process's encryption key
    plaintext,      \* the text last given to encrypt_data
    encrypted,      \* the token encrypt_data returned for it
    encrypted_with, \* the AES_KEY of the process that returned it
    received,       \* the token as it comes back to decrypt_data
    requests,       \* the requests in flight: handler, position, connections
    db_lock,        \* the accounting service's lock: its holder, or Free
    schema,         \* the secretarial database: its tables and columns
    secretarios     \* the secretarial process: where it is in its start

authVars == <<usuarios, sesiones, logs_acceso, clock, JWT_SECRET, exp_inclusive, steps>>

cryptoVars == <<plaintext, encrypted, encrypted_with, received>>

siblingVars == <<requests, db_lock, schema, secretarios>>

vars == <<authVars, AES_KEY, cryptoVars, siblingVars>>

tables == <<usuarios, sesiones, logs_acceso>>

-----------------------------------------------------------------------------
(* Bounds of the model *)

MaxSec == 1
MaxDays == 1
MaxSteps == 4
MaxNul == 1
ByteBits == 2
BlockLen == 2
MaxText == 1
MaxReq == 2

(* Program constants *)

TokenHours == 24
SessionHours == 24

HOUR == 60 * 60
DAY == 24 * HOUR

None == "None"
NoUser == 0
NoDate == 0 - 1

DirectorName == "DirectorEjecutivoAndres"
DirectorPassword == "Hidalgoajhb41"
SecretarioName == "Secretariosajhb1a"
SecretarioPassword == "Secretosajhb42"
NewName == "nuevo"

Salts == {"salt_a"}

-----------------------------------------------------------------------------
(* Request bodies: a JSON object is a record whose domain is the set of    *)
(* keys present; NoJson is a request without a JSON body (request.json is  *)
(* None, or Flask refuses the content type: either way the handler's first *)
(* use of the body raises inside its try block).                           *)

NoJson == [no_json |-> TRUE]

IsJson(data) == "no_json" \notin DOMAIN data

Get(data, key) == IF key \in DOMAIN data THEN data[key] ELSE None

(* A variant of Falsy that tests for None only (is None instead of not). *)
IsNone(v) == v = None

Falsy(v) == v \in {None, ""}

-----------------------------------------------------------------------------
(* Credential hasher *)

(* TLA+ strings cannot hold U+0000: the two characters \0 stand for it. *)
NUL == "\\0"

RECURSIVE Nuls(_)
Nuls(n) == IF n = 0 THEN "" ELSE NUL \o Nuls(n - 1)

(* The passwords of the model that hold no NUL, and the NULs a client may  *)
(* append to one.                                                          *)
Texts == {"", DirectorPassword, SecretarioPassword}

(* HMAC's key block: the key, here password.encode(), zero-padded to the   *)
(* 64-byte block of SHA-256, so the NUL bytes a key ends with are lost.    *)
(* (A key longer than the block is hashed first; the model's passwords are *)
(* shorter.)                                                               *)
HmacKey(password) ==
    LET stems == {t \in Texts : \E n \in 0..MaxNul : password = t \o Nuls(n)}
    IN IF stems = {} THEN password ELSE CHOOSE t \in stems : TRUE

PBKDF2(password, salt) == <<"pbkdf2_hmac_sha256", HmacKey(password), salt>>

hash_password(password, salt) ==
    [digest |-> PBKDF2(password, salt), salt |-> salt]

(* A variant of verify_password that compares the wrong element of the     *)
(* pair hash_password returns.                                             *)
verify_password_salt(password, pwd_hash, salt) ==
    hash_password(password, salt).salt = salt

verify_password(password, pwd_hash, salt) ==
    hash_password(password, salt).digest = pwd_hash

-----------------------------------------------------------------------------
(* Token service.  A secret is the n-th value drawn by                     *)
(* secrets.token_hex(32); a foreign secret is any key that is not one of   *)
(* them.                                                                   *)

NoSecret == <<"unset", 0>>
Secret(n) == <<"token_hex", n>>
ForeignSecret == <<"foreign", 0>>

NonePayload == [user_id |-> NoUser, username |-> None, role |-> None, exp |-> NoDate]

jwt_encode(payload, key) == [kind |-> "jwt", payload |-> payload, key |-> key]

EmptyToken == [kind |-> "empty", payload |-> NonePayload, key |-> NoSecret]
Garbage == [kind |-> "malformed", payload |-> NonePayload, key |-> NoSecret]

generate_token(user_id, username, role, now) ==
    jwt_encode([user_id |-> user_id, username |-> username, role |-> role,
                exp |-> now + TokenHours * HOUR], JWT_SECRET)

(* A variant of Expired for a decoder that skips the exp check              *)
(* (options verify_exp = False).                                           *)
ExpiredNever(exp, now) == FALSE

(* PyJWT's exp check: expired when exp < now, and from PyJWT 2.6.0 also    *)
(* when exp = now.                                                         *)
Expired(exp, now) == exp < now \/ (exp_inclusive /\ exp = now)

(* A variant of jwt_decode that skips the signature check                  *)
(* (options verify_signature = False).                                     *)
jwt_decode_unverified(token, key, now) ==
    IF token.kind # "jwt" THEN NonePayload ELSE token.payload

(* jwt.decode(token, key, algorithms=['HS256']) at wall-clock time now,    *)
(* with every jwt.InvalidTokenError turned into None.                      *)
jwt_decode(token, key, now) ==
    IF token.kind # "jwt" THEN NonePayload                 \* DecodeError
    ELSE IF token.key # key THEN NonePayload               \* InvalidSignatureError
    ELSE IF Expired(token.payload.exp, now) THEN NonePayload
    ELSE token.payload

(* A variant of verify_token that also rejects a token one of whose        *)
(* session rows has been closed.                                           *)
verify_token_open_session(token) ==
    IF \E i \in 1..Len(sesiones) :
           sesiones[i].token = token /\ sesiones[i].activa = 0
    THEN NonePayload
    ELSE jwt_decode(token, JWT_SECRET, clock)

(* A variant of verify_token that also rejects a token whose user row is   *)
(* no longer active or no longer carries the role the token was signed     *)
(* with.                                                                   *)
verify_token_current_user(token) ==
    LET payload == jwt_decode(token, JWT_SECRET, clock)
    IN IF payload = NonePayload THEN NonePayload
       ELSE IF \/ payload.user_id \notin 1..Len(usuarios)
               \/ usuarios[payload.user_id].activo # 1
               \/ usuarios[payload.user_id].role # payload.role
       THEN NonePayload
       ELSE payload

verify_token(token) == jwt_decode(token, JWT_SECRET, clock)

-----------------------------------------------------------------------------
(* Rows *)

UserRow(username, hashed, nombre_completo, role, permisos, creado_por) ==
    [username |-> username, password_hash |-> hashed.digest, salt |-> hashed.salt,
     nombre_completo |-> nombre_completo, role |-> role, permisos |-> permisos,
     activo |-> 1, ultimo_acceso |-> NoDate, creado_por |-> creado_por]

SessionRow(user_id, token, fecha_inicio, fecha_expiracion) ==
    [user_id |-> user_id, token |-> token, fecha_inicio |-> fecha_inicio,
     fecha_expiracion |-> fecha_expiracion, activa |-> 1]

LogRow(user_id, username, accion, exitoso) ==
    [user_id |-> user_id, username |-> username, accion |-> accion,
     exitoso |-> IF exitoso THEN 1 ELSE 0]

(* SELECT COUNT( * ) FROM usuarios WHERE username = ? *)
CountUsername(tbl, username) ==
    Cardinality({i \in 1..Len(tbl) : tbl[i].username = username})

(* A variant of UniqueViolation for a column declared without UNIQUE. *)
UniqueViolationNever(tbl, username) == FALSE

(* INSERT INTO usuarios under the column constraint username TEXT UNIQUE:  *)
(* the statement raises sqlite3.IntegrityError when the name is taken.     *)
UniqueViolation(tbl, username) == CountUsername(tbl, username) > 0

(* A variant of SelectActiveUser without the activo = 1 condition. *)
SelectAnyUser(username) ==
    LET hits == {i \in 1..Len(usuarios) : usuarios[i].username = username}
    IN IF hits = {} THEN NoUser ELSE CHOOSE i \in hits : TRUE

(* SELECT * FROM usuarios WHERE username = ? AND activo = 1, fetchone():   *)
(* the row's id, or NoUser when no row matches.                            *)
SelectActiveUser(username) ==
    LET hits == {i \in 1..Len(usuarios) :
                    usuarios[i].username = username /\ usuarios[i].activo = 1}
    IN IF hits = {} THEN NoUser ELSE CHOOSE i \in hits : TRUE

-----------------------------------------------------------------------------
(* Requests and results *)

NoHeader == [scheme |-> "absent", token |-> EmptyToken]
Bearer(token) == [scheme |-> "Bearer", token |-> token]
Raw(token) == [scheme |-> "raw", token |-> token]

(* A handler that answers without touching the store. *)
Reply(status, body) ==
    [status |-> status, body |-> body, usuarios |-> usuarios, sesiones |-> sesiones,
     logs_acceso |-> logs_acceso, clock |-> clock]

Running == JWT_SECRET # NoSecret

-----------------------------------------------------------------------------
(* init_db: CREATE TABLE IF NOT EXISTS, then the two seed accounts, each   *)
(* inserted only when no row has its username.                             *)

(* A variant of SeedUser that restores the seed account when it exists     *)
(* (INSERT OR REPLACE in place of the COUNT test).                         *)
SeedUserReplace(tbl, username, password, salt, nombre_completo, role, permisos) ==
    IF CountUsername(tbl, username) = 0
    THEN Append(tbl, UserRow(username, hash_password(password, salt),
                             nombre_completo, role, permisos, NoUser))
    ELSE [i \in 1..Len(tbl) |->
             IF tbl[i].username = username
             THEN UserRow(username, hash_password(password, salt),
                          nombre_completo, role, permisos, NoUser)
             ELSE tbl[i]]

SeedUser(tbl, username, password, salt, nombre_completo, role, permisos) ==
    IF CountUsername(tbl, username) = 0
    THEN Append(tbl, UserRow(username, hash_password(password, salt),
                             nombre_completo, role, permisos, NoUser))
    ELSE tbl

init_db(salt1, salt2) ==
    SeedUser(SeedUser(usuarios, DirectorName, DirectorPassword, salt1,
                      "Andres Hidalgo - Director Ejecutivo", "director", "all"),
             SecretarioName, SecretarioPassword, salt2,
             "Secretario General", "secretario", "ventas,secretarios")

-----------------------------------------------------------------------------
(* log_access: one INSERT in its own connection; any exception is caught   *)
(* and logged, the row is then not written (ok = FALSE).                   *)

(* A variant of log_access that keeps the newest row only (the table is    *)
(* cleared before the INSERT).                                             *)
log_access_newest_only(user_id, username, accion, exitoso, ok) ==
    IF ok THEN <<LogRow(user_id, username, accion, exitoso)>>
    ELSE logs_acceso

log_access(user_id, username, accion, exitoso, ok) ==
    IF ok THEN Append(logs_acceso, LogRow(user_id, username, accion, exitoso))
    ELSE logs_acceso

(* A variant of UnknownUser that tells the caller the name is not known. *)
UnknownUserTold(username, ok) ==
    [Reply(404, [success |-> FALSE, error |-> "Usuario no encontrado"]) EXCEPT
        !.logs_acceso = log_access(NoUser, username, "login_fallido", FALSE, ok)]

(* login, lines 215-219: no active row has the username *)
UnknownUser(username, ok) ==
    [Reply(401, [success |-> FALSE, error |-> "Credenciales invalidas"]) EXCEPT
        !.logs_acceso = log_access(NoUser, username, "login_fallido", FALSE, ok)]

(* A variant of WrongPassword for a log_access that lets the exception of  *)
(* a failed insert reach login's handler.                                  *)
WrongPasswordAuditRaises(uid, username, ok) ==
    IF ok
    THEN [Reply(401, [success |-> FALSE, error |-> "Credenciales invalidas"]) EXCEPT
             !.logs_acceso = log_access(uid, username, "login_fallido", FALSE, ok)]
    ELSE Reply(500, [success |-> FALSE, error |-> "Error interno del servidor"])

(* login, lines 221-224: the row's hash does not match the password *)
WrongPassword(uid, username, ok) ==
    [Reply(401, [success |-> FALSE, error |-> "Credenciales invalidas"]) EXCEPT
        !.logs_acceso = log_access(uid, username, "login_fallido", FALSE, ok)]

(* POST /api/login.  d1 and d2 are the seconds that pass between the clock *)
(* reads of lines 99, 230 and 235.                                         *)
login(data, d1, d2, ok) ==
    LET username == Get(data, "username")
        password == Get(data, "password")
        uid == SelectActiveUser(username)
        user == usuarios[uid]
        token == generate_token(uid, user.username, user.role, clock)
        fecha_actual == clock + d1
        fecha_expiracion == clock + d1 + d2 + SessionHours * HOUR
    IN
    IF ~IsJson(data) THEN
        Reply(500, [success |-> FALSE, error |-> "Error interno del servidor"])
    ELSE IF Falsy(username) \/ Falsy(password) THEN
        Reply(400, [success |-> FALSE, error |-> "Credenciales incompletas"])
    ELSE IF uid = NoUser THEN UnknownUser(username, ok)
    ELSE IF ~verify_password(password, user.password_hash, user.salt) THEN
        WrongPassword(uid, username, ok)
    ELSE
        [status |-> 200,
         body |-> [success |-> TRUE, token |-> token,
                   user |-> [id |-> uid, username |-> user.username,
                             nombre_completo |-> user.nombre_completo,
                             role |-> user.role, permisos |-> user.permisos]],
         usuarios |-> [usuarios EXCEPT ![uid].ultimo_acceso = fecha_actual],
         sesiones |-> Append(sesiones,
                             SessionRow(uid, token, fecha_actual, fecha_expiracion)),
         logs_acceso |-> log_access(uid, username, "login_exitoso", TRUE, ok),
         clock |-> clock + d1 + d2]

-----------------------------------------------------------------------------
(* /api/verify and /api/auth/logout *)

(* The token /api/verify looks at: the header's when it starts with        *)
(* 'Bearer ', else the JSON body's token field, else None.                 *)
VerifyToken(auth, data) ==
    IF auth.scheme = "Bearer" THEN auth.token
    ELSE IF IsJson(data) /\ "token" \in DOMAIN data THEN data.token
    ELSE EmptyToken

(* request.json without a JSON body is None in Flask before 2.1 and raises *)
(* from 2.1 on; strict is the second case.                                 *)
verify(auth, data, strict) ==
    LET token == VerifyToken(auth, data)
        payload == verify_token(token)
    IN
    IF auth.scheme # "Bearer" /\ ~IsJson(data) /\ strict THEN
        Reply(500, [valid |-> FALSE, error |-> "Error interno del servidor"])
    ELSE IF token.kind = "empty" THEN
        Reply(400, [valid |-> FALSE, error |-> "Token no proporcionado"])
    ELSE IF payload = NonePayload THEN
        Reply(401, [valid |-> FALSE, error |-> "Token invalido o expirado"])
    ELSE Reply(200, [valid |-> TRUE, user |-> payload])

(* A variant of DeactivateSessions that flips the flag                     *)
(* (SET activa = 1 - activa).                                              *)
ToggleSessions(token) ==
    [i \in 1..Len(sesiones) |->
        IF sesiones[i].token = token
        THEN [sesiones[i] EXCEPT !.activa = 1 - sesiones[i].activa]
        ELSE sesiones[i]]

(* A variant of DeactivateSessions that runs DELETE FROM sesiones WHERE    *)
(* token = ?.                                                              *)
DeleteSessions(token) ==
    LET Other(row) == row.token # token
    IN SelectSeq(sesiones, Other)

(* UPDATE sesiones SET activa = 0 WHERE token = ? *)
DeactivateSessions(token) ==
    [i \in 1..Len(sesiones) |->
        IF sesiones[i].token = token THEN [sesiones[i] EXCEPT !.activa = 0]
        ELSE sesiones[i]]

logout(data) ==
    IF ~IsJson(data) THEN
        Reply(500, [success |-> FALSE, error |-> "Error interno del servidor"])
    ELSE IF "token" \in DOMAIN data /\ data.token.kind # "empty" THEN
        [Reply(200, [success |-> TRUE]) EXCEPT !.sesiones = DeactivateSessions(data.token)]
    ELSE Reply(200, [success |-> TRUE])

-----------------------------------------------------------------------------
(* User management, director only *)

(* request.headers.get('Authorization', '').replace('Bearer ', '') *)
HeaderToken(auth) == IF auth.scheme = "absent" THEN EmptyToken ELSE auth.token

(* A variant of GateRejects that looks at the token only, not at its role. *)
GateRejectsNoToken(payload) == payload = NonePayload

(* not payload or payload['role'] != 'director' *)
GateRejects(payload) == payload = NonePayload \/ payload.role # "director"

(* A variant of Forbidden that answers as /api/verify does. *)
Unauthenticated == Reply(401, [success |-> FALSE, error |-> "Token invalido o expirado"])

Forbidden == Reply(403, [success |-> FALSE, error |-> "No autorizado"])

UserView(i) ==
    [id |-> i, username |-> usuarios[i].username,
     nombre_completo |-> usuarios[i].nombre_completo, role |-> usuarios[i].role,
     permisos |-> usuarios[i].permisos, activo |-> usuarios[i].activo,
     ultimo_acceso |-> usuarios[i].ultimo_acceso]

get_users(auth) ==
    LET payload == verify_token(HeaderToken(auth))
    IN
    IF GateRejects(payload) THEN Forbidden
    ELSE Reply(200, [success |-> TRUE, data |-> {UserView(i) : i \in 1..Len(usuarios)}])

(* A variant of create_user that validates the body before it looks at    *)
(* the token.                                                              *)
create_user_gate_last(auth, data, salt) ==
    LET payload == verify_token(HeaderToken(auth))
    IN
    IF ~IsJson(data) THEN
        Reply(500, [success |-> FALSE, error |-> "AttributeError"])
    ELSE IF \E k \in {"username", "password", "nombre_completo", "role", "permisos"} :
                Falsy(Get(data, k)) THEN
        Reply(400, [success |-> FALSE, error |-> "Datos incompletos"])
    ELSE IF GateRejects(payload) THEN Forbidden
    ELSE IF UniqueViolation(usuarios, data.username) THEN
        Reply(400, [success |-> FALSE, error |-> "El usuario ya existe"])
    ELSE
        [Reply(200, [success |-> TRUE, id |-> Len(usuarios) + 1]) EXCEPT
            !.usuarios = Append(usuarios,
                UserRow(data.username, hash_password(data.password, salt),
                        data.nombre_completo, data.role, data.permisos,
                        payload.user_id))]

create_user(auth, data, salt) ==
    LET payload == verify_token(HeaderToken(auth))
        username == Get(data, "username")
        password == Get(data, "password")
        nombre_completo == Get(data, "nombre_completo")
        role == Get(data, "role")
        permisos == Get(data, "permisos")
    IN
    IF GateRejects(payload) THEN Forbidden
    ELSE IF ~IsJson(data) THEN
        Reply(500, [success |-> FALSE, error |-> "AttributeError"])
    ELSE IF \E v \in {username, password, nombre_completo, role, permisos} : Falsy(v) THEN
        Reply(400, [success |-> FALSE, error |-> "Datos incompletos"])
    ELSE IF UniqueViolation(usuarios, username) THEN
        Reply(400, [success |-> FALSE, error |-> "El usuario ya existe"])
    ELSE
        [Reply(200, [success |-> TRUE, id |-> Len(usuarios) + 1]) EXCEPT
            !.usuarios = Append(usuarios,
                UserRow(username, hash_password(password, salt), nombre_completo,
                        role, permisos, payload.user_id))]

(* The modelled columns a PUT body can set (email is the sixth); any other *)
(* key of the body, username included, is ignored.                         *)
UpdatableKeys == {"nombre_completo", "role", "permisos", "activo", "password"}

(* UPDATE usuarios SET <the body's columns> on one row *)
ApplyUpdate(row, data, salt) ==
    [row EXCEPT
        !.nombre_completo = IF "nombre_completo" \in DOMAIN data
                            THEN data.nombre_completo ELSE @,
        !.role = IF "role" \in DOMAIN data THEN data.role ELSE @,
        !.permisos = IF "permisos" \in DOMAIN data THEN data.permisos ELSE @,
        !.activo = IF "activo" \in DOMAIN data THEN data.activo ELSE @,
        !.password_hash = IF "password" \in DOMAIN data
                          THEN hash_password(data.password, salt).digest ELSE @,
        !.salt = IF "password" \in DOMAIN data
                 THEN hash_password(data.password, salt).salt ELSE @]

update_user(auth, user_id, data, salt) ==
    LET payload == verify_token(HeaderToken(auth))
    IN
    IF GateRejects(payload) THEN Forbidden
    ELSE IF ~IsJson(data) THEN
        Reply(500, [success |-> FALSE, error |-> "TypeError"])
    ELSE IF DOMAIN data \cap UpdatableKeys # {} /\ user_id \in 1..Len(usuarios) THEN
        [Reply(200, [success |-> TRUE]) EXCEPT
            !.usuarios = [usuarios EXCEPT ![user_id] = ApplyUpdate(@, data, salt)]]
    ELSE Reply(200, [success |-> TRUE])

(* The id delete_user refuses to deactivate. *)
ProtectedId == 1

(* A variant of delete_user that runs DELETE FROM usuarios WHERE id = ?. *)
delete_user_hard(auth, user_id) ==
    IF GateRejects(verify_token(HeaderToken(auth))) THEN Forbidden
    ELSE IF user_id = 1 THEN
        Reply(400, [success |-> FALSE, error |-> "No se puede eliminar al director"])
    ELSE IF user_id \in 1..Len(usuarios) THEN
        [Reply(200, [success |-> TRUE]) EXCEPT
            !.usuarios = [i \in 1..(Len(usuarios) - 1) |->
                            IF i < user_id THEN usuarios[i] ELSE usuarios[i + 1]]]
    ELSE Reply(200, [success |-> TRUE])

(* A variant of delete_user without the guard of lines 460-461. *)
delete_user_any(auth, user_id) ==
    IF GateRejects(verify_token(HeaderToken(auth))) THEN Forbidden
    ELSE IF user_id \in 1..Len(usuarios) THEN
        [Reply(200, [success |-> TRUE]) EXCEPT
            !.usuarios = [usuarios EXCEPT ![user_id].activo = 0]]
    ELSE Reply(200, [success |-> TRUE])

delete_user(auth, user_id) ==
    LET payload == verify_token(HeaderToken(auth))
    IN
    IF GateRejects(payload) THEN Forbidden
    ELSE IF user_id = ProtectedId THEN
        Reply(400, [success |-> FALSE, error |-> "No se puede eliminar al director"])
    ELSE IF user_id \in 1..Len(usuarios) THEN
        [Reply(200, [success |-> TRUE]) EXCEPT
            !.usuarios = [usuarios EXCEPT ![user_id].activo = 0]]
    ELSE Reply(200, [success |-> TRUE])

-----------------------------------------------------------------------------
(* encrypt_data and decrypt_data: AES-CBC with PKCS7 padding, scaled down. *)
(* A byte has ByteBits bits and a cipher block BlockLen bytes (8 and 16 in *)
(* the source).  The block cipher is a keyed permutation of the blocks.    *)
(* UTF-8 keeps its shape: a byte with the top bit clear is a character of  *)
(* its own; of the bytes with the top bit set the upper half are lead      *)
(* bytes, each followed by one continuation byte from the lower half.      *)

Base == 2 ^ ByteBits
Half == Base \div 2
Bytes == 0..(Base - 1)
Blocks == [1..BlockLen -> Bytes]

NoKey == 0

(* The characters are numbered: 0..Half-1 take one byte, the rest two, a   *)
(* lead byte and a continuation byte.                                      *)
Quarter == Half \div 2
Leads == {b \in Bytes : b >= Half + Quarter}
Continuations == {b \in Bytes : b >= Half /\ b < Half + Quarter}
Chars == 0..(Half + Quarter * Quarter - 1)

RECURSIVE utf8_encode(_)
utf8_encode(text) ==
    IF text = <<>> THEN <<>>
    ELSE (IF Head(text) < Half THEN <<Head(text)>>
          ELSE <<Half + Quarter + ((Head(text) - Half) \div Quarter),
                 Half + ((Head(text) - Half) % Quarter)>>)
         \o utf8_encode(Tail(text))

ValueError == [ok |-> FALSE, error |-> "ValueError"]
UnicodeDecodeError == [ok |-> FALSE, error |-> "UnicodeDecodeError"]
Returns(text) == [ok |-> TRUE, text |-> text]

(* bytes.decode('utf-8'): the text, or UnicodeDecodeError for a lone       *)
(* continuation byte or a lead byte without its continuation.              *)
RECURSIVE utf8_decode(_)
utf8_decode(bytes) ==
    IF bytes = <<>> THEN Returns(<<>>)
    ELSE IF Head(bytes) < Half THEN
        LET rest == utf8_decode(Tail(bytes))
        IN IF rest.ok THEN Returns(<<Head(bytes)>> \o rest.text) ELSE rest
    ELSE IF Head(bytes) \in Leads /\ Len(bytes) >= 2 /\ bytes[2] \in Continuations THEN
        LET rest == utf8_decode(Tail(Tail(bytes)))
            char == Half + (bytes[1] - Half - Quarter) * Quarter + (bytes[2] - Half)
        IN IF rest.ok THEN Returns(<<char>> \o rest.text) ELSE rest
    ELSE UnicodeDecodeError

RECURSIVE BitXor(_, _)
BitXor(a, b) ==
    IF a = 0 /\ b = 0 THEN 0
    ELSE ((a + b) % 2) + 2 * BitXor(a \div 2, b \div 2)

XorBlock(a, b) == [i \in 1..BlockLen |-> BitXor(a[i], b[i])]

RECURSIVE BlockNumber(_)
BlockNumber(block) ==
    IF block = <<>> THEN 0 ELSE Head(block) + Base * BlockNumber(Tail(block))

NumberBlock(n) == [i \in 1..BlockLen |-> (n \div (Base ^ (i - 1))) % Base]

(* algorithms.AES(key): a permutation of the blocks for each key, and its  *)
(* inverse.                                                                *)
AES_encrypt(key, block) == NumberBlock((3 * BlockNumber(block) + key) % (Base ^ BlockLen))
AES_decrypt(key, block) == CHOOSE b \in Blocks : AES_encrypt(key, b) = block

(* modes.CBC(iv): each plaintext block is xored with the previous          *)
(* ciphertext block, the first with the iv.                                *)
RECURSIVE CBC_encrypt(_, _, _)
CBC_encrypt(key, prev, data) ==
    IF data = <<>> THEN <<>>
    ELSE LET c == AES_encrypt(key, XorBlock(SubSeq(data, 1, BlockLen), prev))
         IN c \o CBC_encrypt(key, c, SubSeq(data, BlockLen + 1, Len(data)))

RECURSIVE CBC_decrypt(_, _, _)
CBC_decrypt(key, prev, data) ==
    IF data = <<>> THEN <<>>
    ELSE LET c == SubSeq(data, 1, BlockLen)
         IN XorBlock(AES_decrypt(key, c), prev)
            \o CBC_decrypt(key, c, SubSeq(data, BlockLen + 1, Len(data)))

(* padding.PKCS7(128).padder(): n bytes of value n, 1 <= n <= BlockLen. *)
PKCS7_pad(data) ==
    LET n == BlockLen - (Len(data) % BlockLen)
    IN data \o [i \in 1..n |-> n]

(* padding.PKCS7(128).unpadder(): ValueError unless the data ends with n   *)
(* bytes of value n, 1 <= n <= BlockLen.                                   *)
PKCS7_unpad(padded) ==
    IF padded = <<>> THEN ValueError
    ELSE LET n == padded[Len(padded)]
         IN IF n < 1 \/ n > BlockLen \/ n > Len(padded) THEN ValueError
            ELSE IF \E i \in (Len(padded) - n + 1)..Len(padded) : padded[i] # n
            THEN ValueError
            ELSE [ok |-> TRUE, data |-> SubSeq(padded, 1, Len(padded) - n)]

(* bytes[m-1:n]: a slice stops at the end of the bytes. *)
Slice(bytes, m, n) ==
    IF m > Len(bytes) THEN <<>>
    ELSE SubSeq(bytes, m, IF n > Len(bytes) THEN Len(bytes) ELSE n)

(* base64.b64encode(...).decode('utf-8') and base64.b64decode: the token   *)
(* carries the bytes.                                                      *)
b64encode(bytes) == [base64 |-> bytes]
b64decode(token) == token.base64

NoToken == b64encode(<<>>)

encrypt_data(data, iv) ==
    b64encode(iv \o CBC_encrypt(AES_KEY, iv, PKCS7_pad(utf8_encode(data))))

(* The text, or the exception decrypt_data logs and raises again. *)
decrypt_data(encrypted_data) ==
    LET encrypted_bytes == b64decode(encrypted_data)
        iv == Slice(encrypted_bytes, 1, BlockLen)
        encrypted_ == Slice(encrypted_bytes, BlockLen + 1, Len(encrypted_bytes))
    IN
    IF Len(iv) # BlockLen THEN ValueError                 \* modes.CBC(iv)
    ELSE IF Len(encrypted_) % BlockLen # 0 THEN ValueError \* decryptor.finalize()
    ELSE LET decrypted == PKCS7_unpad(CBC_decrypt(AES_KEY, iv, encrypted_))
         IN IF ~decrypted.ok THEN ValueError
            ELSE utf8_decode(decrypted.data)

NothingEncrypted ==
    /\ plaintext = <<>>
    /\ encrypted = NoToken
    /\ encrypted_with = NoKey
    /\ received = NoToken

-----------------------------------------------------------------------------
(* Connections, the accounting lock and the retry decorator.  A request is *)
(* followed through its handler: the checks before the connection, the     *)
(* lock, get_db, execute, commit, close.  Every statement that talks to    *)
(* SQLite either succeeds or raises.                                       *)

Req == 1..MaxReq

Free == 0

(* src/backendconta.py: get_all, get_one, create, update, delete. *)
ContaKinds == {"get_all", "get_one", "create", "update", "delete"}
Writes == {"create", "update", "delete"}
(* src/backendauth.py: login.  src/backendventas.py: update_property. *)
Kinds == ContaKinds \cup {"login", "update_property"}

(* The request's JSON body: an empty object, or one with the fields the    *)
(* handler looks for.                                                      *)
RequestBodies == {"empty", "fields"}

Idle == [kind |-> "none", body |-> "empty", pc |-> "idle", attempt |-> 0,
         connecting |-> 0, open |-> 0, status |-> 0, hit |-> FALSE]

(* retry_on_db_error(max_retries=3) *)
max_retries == 3

(* The attempts get_db makes: three in the accounting and sales services,  *)
(* one in the authentication service.                                      *)
GetDbAttempts(kind) == IF kind = "login" THEN 1 ELSE 3

(* The handlers under @retry_on_db_error, and the handlers whose try has   *)
(* an except Exception clause.                                             *)
Decorated == ContaKinds
CatchAll == Kinds

(* The status of the handler's except clause for the exception. *)
ExceptStatus(kind, exc) ==
    IF kind = "get_all" /\ exc = "OperationalError" THEN 503
    ELSE IF kind = "create" /\ exc = "IntegrityError" THEN 409
    ELSE 500

(* The statuses the handler answers after conn.close(). *)
SuccessStatus(kind) ==
    IF kind = "create" THEN {201}
    ELSE IF kind \in {"get_one", "update", "delete"} THEN {200, 404}
    ELSE {200}

(* A variant of the exit of the with block that releases the lock only at  *)
(* the end of the block, as acquire() ... release() without finally does.  *)
LockReleasedAtEnd(holder, raised) == IF raised THEN holder ELSE Free

(* with db_lock: the lock is released when the block is left, by its last  *)
(* statement or by an exception.                                           *)
LockAfterWith(holder, raised) == Free

(* An exception raised in the handler's try.  The handler's own except     *)
(* clause answers; an exception no clause catches reaches the decorator,   *)
(* which calls the handler again for an OperationalError while attempts    *)
(* remain and lets it through otherwise (Flask answers 500).               *)
Raise(r, exc) ==
    IF r.kind \in CatchAll THEN
        [r EXCEPT !.pc = "done", !.status = ExceptStatus(r.kind, exc),
                  !.hit = @ \/ exc = "OperationalError"]
    ELSE IF r.kind \in Decorated /\ exc = "OperationalError" /\ r.attempt < max_retries
    THEN [r EXCEPT !.pc = "start", !.attempt = @ + 1, !.hit = TRUE]
    ELSE [r EXCEPT !.pc = "done", !.status = 500,
                   !.hit = @ \/ exc = "OperationalError"]

(* The lock after request p has left its handler's with block, if it has   *)
(* one.                                                                    *)
Unlock(p, raised) ==
    IF requests[p].kind \in ContaKinds /\ db_lock = p
    THEN LockAfterWith(db_lock, raised) ELSE db_lock

-----------------------------------------------------------------------------
(* The secretarial service's database: the tables that exist and whether   *)
(* documentos has the etiquetas column.                                    *)

TableOrder == <<"notas", "recordatorios", "eventos", "documentos", "tareas">>
TableNames == {TableOrder[i] : i \in 1..Len(TableOrder)}

EmptyDatabase == [tables |-> {}, etiquetas |-> FALSE]
FullSchema == [tables |-> TableNames, etiquetas |-> TRUE]

(* SELECT etiquetas FROM documentos LIMIT 1 raises OperationalError. *)
SelectEtiquetasFails == "documentos" \notin schema.tables \/ ~schema.etiquetas

(* ALTER TABLE documentos ADD COLUMN etiquetas TEXT raises                 *)
(* OperationalError: no such table.                                        *)
AlterFails == "documentos" \notin schema.tables

(* CREATE TABLE IF NOT EXISTS <name>; documentos is created with the       *)
(* etiquetas column.                                                       *)
CreateIfNotExists(name) ==
    IF name \in schema.tables THEN schema
    ELSE [tables |-> schema.tables \cup {name},
          etiquetas |-> schema.etiquetas \/ name = "documentos"]

SiblingsIdle ==
    /\ requests = [p \in Req |-> Idle]
    /\ db_lock = Free
    /\ schema = EmptyDatabase
    /\ secretarios = "stopped"

-----------------------------------------------------------------------------
(* The requests clients send *)

IssuedTokens == {sesiones[i].token : i \in 1..Len(sesiones)}

(* Claims signed with a key that is not the process's. *)
Forged(role) ==
    jwt_encode([user_id |-> 1, username |-> DirectorName, role |-> role,
                exp |-> (MaxDays + 2) * DAY], ForeignSecret)

Tokens == IssuedTokens \cup {Garbage, Forged("director")}

AuthHeaders == {NoHeader} \cup {Bearer(t) : t \in Tokens}

(* A header that carries the token without the 'Bearer ' prefix. *)
RawHeaders == {Raw(t) : t \in IssuedTokens}

LoginBodies ==
    {NoJson, [username |-> DirectorName],
     [username |-> DirectorName, password |-> DirectorPassword],
     [username |-> DirectorName, password |-> SecretarioPassword],
     [username |-> DirectorName, password |-> ""],
     [username |-> DirectorName, password |-> DirectorPassword \o NUL],
     [username |-> SecretarioName, password |-> SecretarioPassword],
     [username |-> NewName, password |-> SecretarioPassword]}

VerifyBodies == {NoJson} \cup {[token |-> t] : t \in Tokens}

LogoutBodies == {NoJson, [other |-> "x"], [token |-> EmptyToken]}
                \cup {[token |-> t] : t \in Tokens}

NewUser(username, role) ==
    [username |-> username, password |-> SecretarioPassword,
     nombre_completo |-> "Nuevo Usuario", role |-> role, permisos |-> "ventas"]

CreateBodies ==
    {NoJson,
     NewUser(NewName, "secretario"), NewUser(NewName, "director"),
     NewUser(DirectorName, "secretario"),
     [username |-> NewName, nombre_completo |-> "Nuevo Usuario",
      role |-> "secretario", permisos |-> "ventas"],
     [NewUser(NewName, "secretario") EXCEPT !.permisos = ""]}

UpdateBodies ==
    {NoJson,
     [username |-> NewName],
     [activo |-> 0], [activo |-> 1],
     [role |-> "secretario"],
     [permisos |-> "ventas"],
     [password |-> ""],
     [nombre_completo |-> "Otro Nombre", username |-> NewName]}

TargetIds == 1..(Len(usuarios) + 1)

-----------------------------------------------------------------------------
(* The state machine *)

Init ==
    /\ usuarios = <<>>
    /\ sesiones = <<>>
    /\ logs_acceso = <<>>
    /\ clock = 0
    /\ JWT_SECRET = NoSecret
    /\ exp_inclusive \in BOOLEAN
    /\ steps = 0
    /\ AES_KEY = NoKey
    /\ NothingEncrypted
    /\ SiblingsIdle

(* __main__: a process start draws a new JWT_SECRET and a new AES_KEY      *)
(* (module level, lines 31 and 32) and runs init_db before serving.        *)
Boot ==
    /\ steps < MaxSteps
    /\ steps' = steps + 1
    /\ JWT_SECRET' = Secret(JWT_SECRET[2] + 1)
    /\ AES_KEY' = JWT_SECRET[2] + 1
    /\ \E salt1, salt2 \in Salts : usuarios' = init_db(salt1, salt2)
    /\ UNCHANGED <<sesiones, logs_acceso, clock, exp_inclusive, cryptoVars, siblingVars>>

(* The wall clock: a second passes, or a day passes. *)
TickSecond ==
    /\ clock % DAY < MaxSec
    /\ clock' = clock + 1
    /\ UNCHANGED <<tables, JWT_SECRET, exp_inclusive, steps, AES_KEY, cryptoVars, siblingVars>>

TickDay ==
    /\ clock \div DAY < MaxDays
    /\ clock' = clock + DAY
    /\ UNCHANGED <<tables, JWT_SECRET, exp_inclusive, steps, AES_KEY, cryptoVars, siblingVars>>

(* A request is served by the running process and its result committed.    *)
(* The model's bounds: boots and handler runs that change a table number   *)
(* at most MaxSteps, and the clock stays within MaxSec seconds of a day's  *)
(* start.                                                                  *)
Serve(r) ==
    /\ Running
    /\ usuarios' = r.usuarios
    /\ sesiones' = r.sesiones
    /\ logs_acceso' = r.logs_acceso
    /\ clock' = r.clock
    /\ steps' = IF <<r.usuarios, r.sesiones, r.logs_acceso>> # tables
                THEN steps + 1 ELSE steps
    /\ steps' <= MaxSteps
    /\ clock' % DAY <= MaxSec
    /\ UNCHANGED <<JWT_SECRET, exp_inclusive, AES_KEY, cryptoVars, siblingVars>>

Login ==
    \E data \in LoginBodies, d1, d2 \in 0..MaxSec, ok \in BOOLEAN :
        Serve(login(data, d1, d2, ok))

Verify ==
    \E auth \in AuthHeaders \cup RawHeaders, data \in VerifyBodies, strict \in BOOLEAN :
        Serve(verify(auth, data, strict))

Logout == \E data \in LogoutBodies : Serve(logout(data))

GetUsers == \E auth \in AuthHeaders \cup RawHeaders : Serve(get_users(auth))

CreateUser ==
    \E auth \in AuthHeaders, data \in CreateBodies, salt \in Salts :
        Serve(create_user(auth, data, salt))

UpdateUser ==
    \E auth \in AuthHeaders, user_id \in TargetIds, data \in UpdateBodies, salt \in Salts :
        Serve(update_user(auth, user_id, data, salt))

DeleteUser ==
    \E auth \in AuthHeaders, user_id \in TargetIds : Serve(delete_user(auth, user_id))

Next ==
    \/ Boot
    \/ TickSecond
    \/ TickDay
    \/ Login
    \/ Verify
    \/ Logout
    \/ GetUsers
    \/ CreateUser
    \/ UpdateUser
    \/ DeleteUser

Spec == Init /\ [][Next]_vars

(* The user-management side: clients that log in (no clock skew inside the *)
(* handler, the audit insert succeeds) and call the director-only          *)
(* endpoints.                                                              *)
LoginPlain == \E data \in LoginBodies : Serve(login(data, 0, 0, TRUE))

NextAdmin ==
    \/ Boot
    \/ TickSecond
    \/ TickDay
    \/ LoginPlain
    \/ GetUsers
    \/ CreateUser
    \/ UpdateUser
    \/ DeleteUser

SpecAdmin == Init /\ [][NextAdmin]_vars

(* The session side: login, verification and logout under a moving clock. *)
NextAuth ==
    \/ Boot
    \/ TickSecond
    \/ TickDay
    \/ Login
    \/ Verify
    \/ Logout

SpecAuth == Init /\ [][NextAuth]_vars

-----------------------------------------------------------------------------
(* The encryption helpers: the process encrypts a text, the token travels  *)
(* and may come back with one bit flipped or cut short.                    *)

Plaintexts == UNION {[1..n -> Chars] : n \in 0..MaxText}

Encrypt ==
    /\ Running
    /\ \E data \in Plaintexts, iv \in Blocks :
           /\ plaintext' = data
           /\ encrypted' = encrypt_data(data, iv)
           /\ received' = encrypt_data(data, iv)
    /\ encrypted_with' = AES_KEY
    /\ UNCHANGED <<authVars, AES_KEY, siblingVars>>

Intact == received = encrypted

FlipBit ==
    /\ encrypted # NoToken
    /\ Intact
    /\ \E i \in 1..Len(b64decode(encrypted)), bit \in 0..(ByteBits - 1) :
           received' = b64encode([b64decode(encrypted) EXCEPT ![i] = BitXor(@, 2 ^ bit)])
    /\ UNCHANGED <<authVars, AES_KEY, plaintext, encrypted, encrypted_with, siblingVars>>

Truncate ==
    /\ encrypted # NoToken
    /\ Intact
    /\ \E n \in 0..(Len(b64decode(encrypted)) - 1) :
           received' = b64encode(SubSeq(b64decode(encrypted), 1, n))
    /\ UNCHANGED <<authVars, AES_KEY, plaintext, encrypted, encrypted_with, siblingVars>>

NextCrypto ==
    \/ Boot
    \/ Encrypt
    \/ FlipBit
    \/ Truncate

SpecCrypto == Init /\ [][NextCrypto]_vars

(* The handlers' use of connections and of the accounting lock, one        *)
(* request per thread.                                                     *)

outsideServices == <<authVars, AES_KEY, cryptoVars, schema, secretarios>>

Arrive(p) ==
    /\ requests[p].pc = "idle"
    /\ \E kind \in Kinds, body \in RequestBodies :
           requests' = [requests EXCEPT ![p] =
                           [Idle EXCEPT !.kind = kind, !.body = body,
                                        !.pc = "start", !.attempt = 1]]
    /\ UNCHANGED db_lock
    /\ UNCHANGED outsideServices

(* The handler's statements before the connection: create and update       *)
(* answer 400 for an empty body (not data), login for missing credentials. *)
Start(p) ==
    LET r == requests[p]
    IN /\ r.pc = "start"
       /\ requests' = [requests EXCEPT ![p] =
              IF r.kind \in {"create", "update", "login"} /\ r.body = "empty"
              THEN [r EXCEPT !.pc = "done", !.status = 400]
              ELSE IF r.kind \in ContaKinds THEN [r EXCEPT !.pc = "acquire"]
              ELSE [r EXCEPT !.pc = "connect", !.connecting = 1]]
       /\ UNCHANGED db_lock
       /\ UNCHANGED outsideServices

(* with db_lock: *)
Acquire(p) ==
    /\ requests[p].pc = "acquire"
    /\ db_lock = Free
    /\ db_lock' = p
    /\ requests' = [requests EXCEPT ![p].pc = "connect", ![p].connecting = 1]
    /\ UNCHANGED outsideServices

(* One attempt of get_db: the connection, or sqlite3.Error; the last       *)
(* failed attempt raises it.                                               *)
Connect(p) ==
    LET r == requests[p]
    IN /\ r.pc = "connect"
       /\ \E ok \in BOOLEAN :
              IF ok THEN
                  /\ requests' = [requests EXCEPT ![p].pc = "execute", ![p].open = @ + 1]
                  /\ UNCHANGED db_lock
              ELSE IF r.connecting < GetDbAttempts(r.kind) THEN
                  /\ requests' = [requests EXCEPT ![p].connecting = @ + 1,
                                                  ![p].hit = TRUE]
                  /\ UNCHANGED db_lock
              ELSE
                  /\ requests' = [requests EXCEPT ![p] = Raise(r, "OperationalError")]
                  /\ db_lock' = Unlock(p, TRUE)
       /\ UNCHANGED outsideServices

(* cursor.execute: update_property first answers 400 when the body has no  *)
(* field to update; login answers 401 when the SELECT finds no user or the *)
(* password is wrong.                                                      *)
Execute(p) ==
    LET r == requests[p]
        rejected == [r EXCEPT !.pc = "done",
                              !.status = IF r.kind = "login" THEN 401 ELSE 400]
    IN /\ r.pc = "execute"
       /\ IF r.kind = "update_property" /\ r.body = "empty" THEN
              /\ requests' = [requests EXCEPT ![p] = rejected]
              /\ UNCHANGED db_lock
          ELSE \E out \in {"ok", "rejected", "OperationalError", "IntegrityError"} :
              IF out = "ok" THEN
                  /\ requests' = [requests EXCEPT ![p].pc =
                         IF r.kind \in {"get_all", "get_one"} THEN "close" ELSE "commit"]
                  /\ UNCHANGED db_lock
              ELSE IF out = "rejected" THEN
                  /\ r.kind = "login"
                  /\ requests' = [requests EXCEPT ![p] = rejected]
                  /\ UNCHANGED db_lock
              ELSE
                  /\ out = "IntegrityError" => r.kind \in Writes
                  /\ requests' = [requests EXCEPT ![p] = Raise(r, out)]
                  /\ db_lock' = Unlock(p, TRUE)
       /\ UNCHANGED outsideServices

(* conn.commit() *)
Commit(p) ==
    LET r == requests[p]
    IN /\ r.pc = "commit"
       /\ \E ok \in BOOLEAN :
              IF ok THEN
                  /\ requests' = [requests EXCEPT ![p].pc = "close"]
                  /\ UNCHANGED db_lock
              ELSE
                  /\ requests' = [requests EXCEPT ![p] = Raise(r, "OperationalError")]
                  /\ db_lock' = Unlock(p, TRUE)
       /\ UNCHANGED outsideServices

(* conn.close(), the end of the with block, and the answer *)
Close(p) ==
    LET r == requests[p]
    IN /\ r.pc = "close"
       /\ \E status \in SuccessStatus(r.kind) :
              requests' = [requests EXCEPT ![p].pc = "done", ![p].open = @ - 1,
                                           ![p].status = status]
       /\ db_lock' = Unlock(p, FALSE)
       /\ UNCHANGED outsideServices

(* A connection the handler left open is closed when the interpreter       *)
(* collects it: at once under reference counting, at some later time or    *)
(* never under another collector.                                          *)
Collect(p) ==
    /\ requests[p].pc = "done"
    /\ requests[p].open > 0
    /\ requests' = [requests EXCEPT ![p].open = 0]
    /\ UNCHANGED db_lock
    /\ UNCHANGED outsideServices

Handle(p) ==
    \/ Start(p)
    \/ Acquire(p)
    \/ Connect(p)
    \/ Execute(p)
    \/ Commit(p)
    \/ Close(p)

NextServices == \E p \in Req : Arrive(p) \/ Handle(p) \/ Collect(p)

(* Every thread that can take a step takes one. *)
SpecServices == Init /\ [][NextServices]_vars /\ \A p \in Req : WF_vars(Handle(p))

-----------------------------------------------------------------------------
(* The secretarial service's start: __main__ runs init_db, statement by    *)
(* statement, before it serves.  The process can be stopped at any point,  *)
(* the database file can be removed, or come from an earlier release whose *)
(* documentos table, if it had one, had no etiquetas column.               *)

outsideSecretarios == <<authVars, AES_KEY, cryptoVars, requests, db_lock>>

CreateStates == [i \in 1..Len(TableOrder) |-> "create_" \o ToString(i)]

StartSecretarios ==
    /\ secretarios \in {"stopped", "crashed"}
    /\ secretarios' = "migrate"
    /\ UNCHANGED schema
    /\ UNCHANGED outsideSecretarios

(* The migration: SELECT etiquetas, and ALTER TABLE when the SELECT        *)
(* raises.  The exception of the ALTER is not caught.                      *)
Migrate ==
    /\ secretarios = "migrate"
    /\ IF ~SelectEtiquetasFails THEN
           secretarios' = "create_1" /\ UNCHANGED schema
       ELSE IF AlterFails THEN
           secretarios' = "crashed" /\ UNCHANGED schema
       ELSE secretarios' = "create_1" /\ schema' = [schema EXCEPT !.etiquetas = TRUE]
    /\ UNCHANGED outsideSecretarios

CreateTable ==
    /\ \E i \in 1..Len(TableOrder) :
            /\ secretarios = CreateStates[i]
            /\ schema' = CreateIfNotExists(TableOrder[i])
            /\ secretarios' = IF i < Len(TableOrder) THEN CreateStates[i + 1] ELSE "running"
    /\ UNCHANGED outsideSecretarios

StopSecretarios ==
    /\ secretarios \notin {"stopped", "crashed"}
    /\ secretarios' = "stopped"
    /\ UNCHANGED schema
    /\ UNCHANGED outsideSecretarios

RemoveDatabase ==
    /\ secretarios \in {"stopped", "crashed"}
    /\ schema # EmptyDatabase
    /\ schema' = EmptyDatabase
    /\ UNCHANGED secretarios
    /\ UNCHANGED outsideSecretarios

EarlierRelease ==
    /\ secretarios = "stopped"
    /\ schema = EmptyDatabase
    /\ \E tbls \in SUBSET TableNames : schema' = [tables |-> tbls, etiquetas |-> FALSE]
    /\ UNCHANGED secretarios
    /\ UNCHANGED outsideSecretarios

NextSecretarios ==
    \/ StartSecretarios
    \/ Migrate
    \/ CreateTable
    \/ StopSecretarios
    \/ RemoveDatabase
    \/ EarlierRelease

SpecSecretarios == Init /\ [][NextSecretarios]_vars

-----------------------------------------------------------------------------
(* Properties of the login and token services *)

Passwords == {DirectorPassword, SecretarioPassword, ""}

Delays == 0..MaxSec

ActiveIds == {i \in 1..Len(usuarios) : usuarios[i].activo = 1}

Accepts(uid, P) == verify_password(P, usuarios[uid].password_hash, usuarios[uid].salt)

(* C1: for every active user U and every password P that verify_password   *)
(* accepts against U's stored hash and salt, a login with (U.username, P)  *)
(* answers 200, success, and a token whose verified claims carry U's id,   *)
(* username and role as stored at the moment of the login.                 *)
C1_AcceptedPasswordLogsIn ==
    Running =>
        \A uid \in ActiveIds, P \in Passwords, d1, d2 \in Delays, ok \in BOOLEAN :
            Accepts(uid, P) =>
                LET r == login([username |-> usuarios[uid].username, password |-> P],
                               d1, d2, ok)
                IN /\ r.status = 200
                   /\ r.body.success
                   /\ jwt_decode(r.body.token, JWT_SECRET, r.clock) # NonePayload
                   /\ jwt_decode(r.body.token, JWT_SECRET, r.clock).user_id = uid
                   /\ jwt_decode(r.body.token, JWT_SECRET, r.clock).username
                          = usuarios[uid].username
                   /\ jwt_decode(r.body.token, JWT_SECRET, r.clock).role
                          = usuarios[uid].role

CompleteLogins == {data \in LoginBodies :
                      IsJson(data) /\ ~Falsy(Get(data, "username"))
                                   /\ ~Falsy(Get(data, "password"))}

NoActiveUser(data) == SelectActiveUser(data.username) = NoUser

BadPassword(data) ==
    /\ SelectActiveUser(data.username) # NoUser
    /\ ~Accepts(SelectActiveUser(data.username), data.password)

(* C2: of two complete logins, one failing because no active user has the  *)
(* name and one failing because the password is wrong for an active user,  *)
(* both answer 401 with the same body and leave usuarios, sesiones and the *)
(* clock alone; they differ only in the audit row each appends: user_id    *)
(* NULL for the first, the matched user's id for the second.               *)
C2_FailuresLookAlike ==
    Running =>
        \A a, b \in CompleteLogins, d1, d2 \in Delays :
            (NoActiveUser(a) /\ BadPassword(b)) =>
                LET ra == login(a, d1, d2, TRUE)
                    rb == login(b, d1, d2, TRUE)
                    qa == login(a, d1, d2, FALSE)
                    qb == login(b, d1, d2, FALSE)
                IN /\ ra.status = 401 /\ rb.status = 401
                   /\ ra.body = rb.body
                   /\ qa.status = 401 /\ qb.status = 401
                   /\ qa.body = ra.body /\ qb.body = ra.body
                   /\ \A r \in {ra, rb, qa, qb} :
                          /\ r.usuarios = usuarios
                          /\ r.sesiones = sesiones
                          /\ r.clock = clock
                   /\ ra.logs_acceso =
                          Append(logs_acceso,
                                 LogRow(NoUser, a.username, "login_fallido", FALSE))
                   /\ rb.logs_acceso =
                          Append(logs_acceso,
                                 LogRow(SelectActiveUser(b.username), b.username,
                                        "login_fallido", FALSE))
                   /\ qa.logs_acceso = logs_acceso
                   /\ qb.logs_acceso = logs_acceso

(* Both kinds of failed login have been served and audited. *)
C2_BothFailuresLogged ==
    \E i, j \in 1..Len(logs_acceso) :
        /\ logs_acceso[i].accion = "login_fallido"
        /\ logs_acceso[i].user_id = NoUser
        /\ logs_acceso[j].accion = "login_fallido"
        /\ logs_acceso[j].user_id # NoUser

(* C3, as stated: a token issued at t is accepted at every clock time from *)
(* t up to and including its expiry t + 24h, and rejected at every later   *)
(* time.                                                                   *)
C3_AcceptedThroughExpiry ==
    \A tok \in IssuedTokens :
        /\ clock <= tok.payload.exp => verify_token(tok) = tok.payload
        /\ clock > tok.payload.exp => verify_token(tok) = NonePayload

(* What the issuing process decides about each token it or an earlier      *)
(* process issued.                                                         *)
TokenLifetime ==
    \A tok \in IssuedTokens :
        /\ (tok.key = JWT_SECRET /\ clock < tok.payload.exp)
               => verify_token(tok) = tok.payload
        /\ (tok.key = JWT_SECRET /\ clock = tok.payload.exp)
               => verify_token(tok) = IF exp_inclusive THEN NonePayload
                                      ELSE tok.payload
        /\ clock > tok.payload.exp => verify_token(tok) = NonePayload
        /\ tok.key # JWT_SECRET => verify_token(tok) = NonePayload

StaysRejected ==
    \A tok \in IssuedTokens :
        jwt_decode(tok, JWT_SECRET, clock) = NonePayload
            => jwt_decode(tok, JWT_SECRET', clock') = NonePayload

(* C3, amended: a token issued at t is accepted by the process that issued *)
(* it at every clock time before t + 24h and rejected at every clock time  *)
(* after it; at the expiry second itself the installed PyJWT decides       *)
(* (rejected from 2.6.0 on, accepted before); a process started later      *)
(* rejects it at any time; and a token once rejected is never accepted     *)
(* again.                                                                  *)
C3_TokenLifetime == []TokenLifetime /\ [][StaysRejected]_vars

(* A token of the running process has outlived its 24 hours. *)
C3_TokenExpired ==
    \E tok \in IssuedTokens : tok.key = JWT_SECRET /\ clock > tok.payload.exp

(* The tokens a client can present: issued ones, the empty string, a       *)
(* malformed string, and claims of either role signed with a foreign key.  *)
PresentedTokens ==
    IssuedTokens \cup {EmptyToken, Garbage, Forged("director"), Forged("secretario")}

(* C4: verify_token returns None for every token that is malformed, is     *)
(* signed with a key other than the process's JWT_SECRET whatever its      *)
(* claims, or is past its exp; it returns claims, the token's own, only    *)
(* for a well-formed token signed with JWT_SECRET and not past its exp.    *)
C4_FailsClosed ==
    \A tok \in PresentedTokens :
        /\ tok.kind # "jwt" => verify_token(tok) = NonePayload
        /\ tok.key # JWT_SECRET => verify_token(tok) = NonePayload
        /\ (tok.kind = "jwt" /\ tok.payload.exp < clock)
               => verify_token(tok) = NonePayload
        /\ verify_token(tok) # NonePayload
               => /\ tok.kind = "jwt"
                  /\ tok.key = JWT_SECRET
                  /\ clock <= tok.payload.exp
                  /\ verify_token(tok) = tok.payload

(* The process holds a token of an earlier process and an expired token of *)
(* its own.                                                                *)
C4_StaleAndExpired ==
    \E t1, t2 \in IssuedTokens :
        /\ t1.key # JWT_SECRET
        /\ t2.key = JWT_SECRET /\ t2.payload.exp < clock

-----------------------------------------------------------------------------
(* Properties of the user-management endpoints *)

Headers == AuthHeaders \cup RawHeaders

(* The token of the header passes verify_token with the director's role. *)
PassesGate(auth) ==
    /\ verify_token(HeaderToken(auth)) # NonePayload
    /\ verify_token(HeaderToken(auth)).role = "director"

(* The four endpoints' results for one header, over every id and body. *)
ManagementResults(auth) ==
    {get_users(auth)}
    \cup {create_user(auth, data, salt) : data \in CreateBodies, salt \in Salts}
    \cup {update_user(auth, user_id, data, salt) :
              user_id \in TargetIds, data \in UpdateBodies, salt \in Salts}
    \cup {delete_user(auth, user_id) : user_id \in TargetIds}

(* C5: a request to GET, POST, PUT or DELETE /api/users whose token does   *)
(* not pass verify_token with role 'director' leaves usuarios, sesiones    *)
(* and logs_acceso unchanged and is answered with an error body that       *)
(* carries no user data.                                                   *)
C5_GateProtectsStore ==
    Running =>
        \A auth \in Headers :
            ~PassesGate(auth) =>
                \A r \in ManagementResults(auth) :
                    /\ r.usuarios = usuarios
                    /\ r.sesiones = sesiones
                    /\ r.logs_acceso = logs_acceso
                    /\ DOMAIN r.body = {"success", "error"}
                    /\ ~r.body.success

(* A client holds a token that verifies and whose role is not director. *)
C5_ValidNonDirector ==
    \E tok \in IssuedTokens :
        /\ verify_token(tok) # NonePayload
        /\ verify_token(tok).role # "director"

InvalidToken(auth) == verify_token(HeaderToken(auth)) = NonePayload

WrongRole(auth) ==
    /\ verify_token(HeaderToken(auth)) # NonePayload
    /\ verify_token(HeaderToken(auth)).role # "director"

C7_NoTokenNoUser ==
    Running =>
        \A data \in CreateBodies, salt \in Salts :
            /\ create_user(NoHeader, data, salt).status = 403
            /\ create_user(NoHeader, data, salt).usuarios = usuarios

(* With a director's token the same bodies are told apart: one creates a   *)
(* user, one is incomplete, one names a taken username.                    *)
C7_BodiesDiffer ==
    \E auth \in AuthHeaders, salt \in Salts :
        /\ \E data \in CreateBodies : create_user(auth, data, salt).status = 200
        /\ \E data \in CreateBodies :
               create_user(auth, data, salt).body
                   = [success |-> FALSE, error |-> "Datos incompletos"]
        /\ \E data \in CreateBodies :
               create_user(auth, data, salt).body
                   = [success |-> FALSE, error |-> "El usuario ya existe"]

(* C8: DELETE /api/users/1 with a token that passes the gate answers 400   *)
(* and leaves the usuarios table unchanged.                                *)
C8_DirectorNotDeleted ==
    Running =>
        \A auth \in Headers :
            PassesGate(auth) =>
                /\ delete_user(auth, 1).status = 400
                /\ delete_user(auth, 1).usuarios = usuarios

(* A director's token is at hand, user 1 is active, and the same request   *)
(* on user 2 would deactivate it.                                          *)
C8_DeleteWouldAct ==
    \E auth \in AuthHeaders :
        /\ PassesGate(auth)
        /\ usuarios[1].activo = 1
        /\ delete_user(auth, 2).status = 200
        /\ delete_user(auth, 2).usuarios # usuarios

(* C9: after init_db and any sequence of management calls, the bootstrap   *)
(* director, row 1, still has its username, activo = 1, role 'director'    *)
(* and permisos 'all'.                                                     *)
C9_BootstrapDirectorKept ==
    Len(usuarios) >= 1 =>
        /\ usuarios[1].username = DirectorName
        /\ usuarios[1].activo = 1
        /\ usuarios[1].role = "director"
        /\ usuarios[1].permisos = "all"

UniqueUsernames ==
    \A i, j \in 1..Len(usuarios) :
        usuarios[i].username = usuarios[j].username => i = j

UsernamesKept ==
    /\ Len(usuarios') >= Len(usuarios)
    /\ \A i \in 1..Len(usuarios) : usuarios'[i].username = usuarios[i].username

(* C10: in every reachable state no two usuarios rows share a username,    *)
(* and no step (init_db, login, create_user, update_user, delete_user)     *)
(* removes a row or changes the username of an existing one.               *)
C10_UsernamesUniqueAndFixed == []UniqueUsernames /\ [][UsernamesKept]_vars

(* A user has been created and a PUT whose body names another username has *)
(* been applied to a row.                                                  *)
C10_CreatedAndUpdated ==
    /\ Len(usuarios) >= 3
    /\ \E i \in 1..Len(usuarios) : usuarios[i].nombre_completo = "Otro Nombre"

-----------------------------------------------------------------------------
(* Properties of deletion, sessions and the access log *)

DeleteIsSoft ==
    Running =>
        \A auth \in Headers, user_id \in TargetIds :
            (PassesGate(auth) /\ user_id # 1) =>
                LET r == delete_user(auth, user_id)
                IN /\ r.status = 200
                   /\ Len(r.usuarios) = Len(usuarios)
                   /\ \A i \in 1..Len(usuarios) :
                          IF i = user_id
                          THEN /\ r.usuarios[i].activo = 0
                               /\ [r.usuarios[i] EXCEPT !.activo = usuarios[i].activo]
                                      = usuarios[i]
                          ELSE r.usuarios[i] = usuarios[i]
                   /\ r.sesiones = sesiones
                   /\ r.logs_acceso = logs_acceso

RowsKept == Len(usuarios') >= Len(usuarios)

(* C11: an authorized DELETE /api/users/:id with id other than 1 sets that *)
(* row's activo to 0 and changes no other column, no other row and no      *)
(* other table; and no step of any operation makes the set of usuarios row *)
(* ids shrink.                                                             *)
C11_SoftDelete == []DeleteIsSoft /\ [][RowsKept]_vars

(* A user who had logged in has been deactivated and its row is still      *)
(* there with its last access.                                             *)
C11_DeactivatedRowKept ==
    \E i \in 2..Len(usuarios) :
        usuarios[i].activo = 0 /\ usuarios[i].ultimo_acceso # NoDate

(* C12: every row of sesiones has fecha_expiracion = fecha_inicio + 24     *)
(* hours exactly, however the wall clock advances between the steps of the *)
(* login handler.                                                          *)
C12_ExpiryIsStartPlusDay ==
    \A i \in 1..Len(sesiones) :
        sesiones[i].fecha_expiracion = sesiones[i].fecha_inicio + 24 * HOUR

VerifyResults(auth) ==
    {verify(auth, data, strict) : data \in VerifyBodies, strict \in BOOLEAN}

LoginResults(data) ==
    {login(data, d1, d2, ok) : d1 \in Delays, d2 \in Delays, ok \in BOOLEAN}

(* What each handler does to sesiones. *)
SessionWriters ==
    Running =>
        /\ \A data \in LoginBodies :
               \A r \in LoginResults(data) :
                   IF r.status = 200
                   THEN /\ Len(r.sesiones) = Len(sesiones) + 1
                        /\ SubSeq(r.sesiones, 1, Len(sesiones)) = sesiones
                        /\ r.sesiones[Len(r.sesiones)].activa = 1
                        /\ r.sesiones[Len(r.sesiones)].token = r.body.token
                   ELSE r.sesiones = sesiones
        /\ \A data \in LogoutBodies :
               /\ Len(logout(data).sesiones) = Len(sesiones)
               /\ \A i \in 1..Len(sesiones) :
                      \/ logout(data).sesiones[i] = sesiones[i]
                      \/ /\ IsJson(data)
                         /\ Get(data, "token") = sesiones[i].token
                         /\ sesiones[i].activa = 1
                         /\ logout(data).sesiones[i] = [sesiones[i] EXCEPT !.activa = 0]
        /\ \A auth \in Headers :
               \A r \in ManagementResults(auth) \cup VerifyResults(auth) :
                   r.sesiones = sesiones

(* What a step may do to sesiones. *)
SessionStep ==
    /\ Len(sesiones') \in {Len(sesiones), Len(sesiones) + 1}
    /\ \A i \in 1..Len(sesiones) :
           \/ sesiones'[i] = sesiones[i]
           \/ /\ sesiones[i].activa = 1
              /\ sesiones'[i] = [sesiones[i] EXCEPT !.activa = 0]
    /\ \A i \in (Len(sesiones) + 1)..Len(sesiones') : sesiones'[i].activa = 1

(* C13: a sesiones row is created only by a login that answers 200, which  *)
(* appends exactly one row with activa = 1 and the token it returns; a     *)
(* login that fails creates none; a row's activa changes only from 1 to 0, *)
(* only in a logout that carries the row's token, and never back to 1; no  *)
(* row is ever deleted or otherwise changed.                               *)
C13_SessionLifecycle == []SessionWriters /\ [][SessionStep]_vars

(* One session has been closed by logout while another is still active. *)
C13_OpenAndClosed ==
    \E i, j \in 1..Len(sesiones) : sesiones[i].activa = 1 /\ sesiones[j].activa = 0

(* Every session row of the token has been closed. *)
LoggedOut(tok) ==
    \A i \in 1..Len(sesiones) : sesiones[i].token = tok => sesiones[i].activa = 0

(* C14: logout does not revoke a token.  A token T of the running process, *)
(* at every clock time before its signed expiry, whatever the activa flags *)
(* of its session rows and so also after a logout has closed them all, is  *)
(* answered valid = true with its claims by /api/verify (header or body),  *)
(* and, when its role is director, is accepted by the director-gated       *)
(* endpoints.                                                              *)
C14_LogoutKeepsToken ==
    \A tok \in IssuedTokens :
        (tok.key = JWT_SECRET /\ clock < tok.payload.exp) =>
            /\ \A strict \in BOOLEAN :
                   /\ verify(Bearer(tok), NoJson, strict)
                          = Reply(200, [valid |-> TRUE, user |-> tok.payload])
                   /\ verify(NoHeader, [token |-> tok], strict)
                          = Reply(200, [valid |-> TRUE, user |-> tok.payload])
            /\ tok.payload.role = "director" =>
                   /\ get_users(Bearer(tok)).status = 200
                   /\ \A r \in ManagementResults(Bearer(tok)) : r.status # 403

(* A director's token has been logged out, is still within its 24 hours    *)
(* and is presented to the process that issued it.                         *)
C14_LoggedOutUnexpired ==
    \E tok \in IssuedTokens :
        /\ LoggedOut(tok)
        /\ tok.key = JWT_SECRET
        /\ clock < tok.payload.exp
        /\ tok.payload.role = "director"

(* tbl with at most one row added at its end and no other change. *)
Extends(new, old) ==
    /\ Len(new) \in {Len(old), Len(old) + 1}
    /\ SubSeq(new, 1, Len(old)) = old

(* What each handler does to logs_acceso: login, the one caller of         *)
(* log_access, may add a row; no other handler touches the table.          *)
LogWriters ==
    Running =>
        /\ \A data \in LoginBodies :
               \A r \in LoginResults(data) : Extends(r.logs_acceso, logs_acceso)
        /\ \A data \in LogoutBodies : logout(data).logs_acceso = logs_acceso
        /\ \A auth \in Headers :
               \A r \in ManagementResults(auth) \cup VerifyResults(auth) :
                   r.logs_acceso = logs_acceso

LogStep == Extends(logs_acceso', logs_acceso)

(* C15: the access log is append-only.  Every step leaves every existing   *)
(* logs_acceso row in place and unchanged and adds at most one row at the  *)
(* end; rows are added by login through log_access and by no other         *)
(* handler.                                                                *)
C15_LogAppendOnly == []LogWriters /\ [][LogStep]_vars

(* A successful login was audited and a failed one after it. *)
C15_TwoRowsLogged ==
    \E i, j \in 1..Len(logs_acceso) :
        i < j /\ logs_acceso[i].exitoso = 1 /\ logs_acceso[j].exitoso = 0

(* C16: every POST /api/login, whatever its outcome (200, 401, 400, 500),  *)
(* writes exactly one new logs_acceso row; stated for logins whose audit   *)
(* insert does not fail.                                                   *)
C16_EveryLoginLogged ==
    Running =>
        \A data \in LoginBodies, d1, d2 \in Delays :
            Len(login(data, d1, d2, TRUE).logs_acceso) = Len(logs_acceso) + 1

(* C17: a login whose audit insert fails answers with the same status and  *)
(* body, and leaves the same usuarios (ultimo_acceso), the same sesiones   *)
(* and the same clock, as the login whose audit insert succeeds; it only   *)
(* leaves logs_acceso without the row.                                     *)
C17_AuditFailureIsSilent ==
    Running =>
        \A data \in LoginBodies, d1, d2 \in Delays :
            LET r == login(data, d1, d2, TRUE)
                q == login(data, d1, d2, FALSE)
            IN /\ q.status = r.status
               /\ q.body = r.body
               /\ q.usuarios = r.usuarios
               /\ q.sesiones = r.sesiones
               /\ q.clock = r.clock
               /\ q.logs_acceso = logs_acceso

SuccessRows == {i \in 1..Len(logs_acceso) : logs_acceso[i].accion = "login_exitoso"}

(* A login has succeeded, and opened its session, while its audit insert   *)
(* failed.                                                                 *)
C17_SessionWithoutAudit == Len(sesiones) > Cardinality(SuccessRows)

(* A logout with a token none of whose session rows is active (or that has *)
(* no row) reports success and leaves the store as it was.                 *)
LogoutOfClosed ==
    \A tok \in PresentedTokens \ {EmptyToken} :
        LoggedOut(tok) => logout([token |-> tok]) = Reply(200, [success |-> TRUE])

(* A step that is a logout with token tok reports success, and leads to a  *)
(* state in which the same logout reports success and changes nothing.     *)
LogoutTwice ==
    \A tok \in Tokens :
        (/\ sesiones' = logout([token |-> tok]).sesiones
         /\ UNCHANGED <<usuarios, logs_acceso, clock>>)
            => /\ logout([token |-> tok]).status = 200
               /\ logout([token |-> tok]).body = [success |-> TRUE]
               /\ (logout([token |-> tok]).status)' = 200
               /\ (logout([token |-> tok]).body)' = [success |-> TRUE]
               /\ (logout([token |-> tok]).sesiones)' = sesiones'
               /\ (logout([token |-> tok]).usuarios)' = usuarios'
               /\ (logout([token |-> tok]).logs_acceso)' = logs_acceso'

(* C18: logout is idempotent.  With a token whose sessions are all         *)
(* inactive, or that has no session row, it reports success and leaves the *)
(* store exactly as it was; after any logout with a token, a second logout *)
(* with that token reports success too and leaves the state the first one  *)
(* produced.                                                               *)
C18_LogoutIdempotent == []LogoutOfClosed /\ [][LogoutTwice]_vars

(* Two sessions opened with the same token have both been closed. *)
C18_BothRowsClosed ==
    \E i, j \in 1..Len(sesiones) :
        /\ i < j
        /\ sesiones[i].token = sesiones[j].token
        /\ sesiones[i].activa = 0
        /\ sesiones[j].activa = 0

(* C19: POST /api/auth/logout answers 200 {success: true} for every        *)
(* request: no token field, an empty token, an unknown token, or no JSON   *)
(* body at all.                                                            *)
C19_LogoutAlwaysSucceeds ==
    Running =>
        \A data \in LogoutBodies :
            /\ logout(data).status = 200
            /\ logout(data).body = [success |-> TRUE]

-----------------------------------------------------------------------------
(* Properties of user creation *)

RequiredFields == {"username", "password", "nombre_completo", "role", "permisos"}

Incomplete(data) == \E k \in RequiredFields : k \notin DOMAIN data \/ data[k] = ""

(* Some row, active or not, has the username. *)
Taken(username) == \E i \in 1..Len(usuarios) : usuarios[i].username = username

-----------------------------------------------------------------------------
(* Properties of init_db, the hasher and the management API's edges *)

(* init_db on the current store: on an empty one it leaves exactly the two *)
(* seed accounts, on any other it changes nothing.                         *)
InitDbResult ==
    \A salt1, salt2 \in Salts :
        IF usuarios = <<>>
        THEN /\ Len(init_db(salt1, salt2)) = 2
             /\ init_db(salt1, salt2)[1].username = DirectorName
             /\ init_db(salt1, salt2)[1].role = "director"
             /\ init_db(salt1, salt2)[1].permisos = "all"
             /\ init_db(salt1, salt2)[2].username = SecretarioName
             /\ init_db(salt1, salt2)[2].role = "secretario"
             /\ \A i \in 1..2 : init_db(salt1, salt2)[i].activo = 1
        ELSE init_db(salt1, salt2) = usuarios

(* A process start on a store that has been booted before changes no       *)
(* table.                                                                  *)
RebootKeepsStore ==
    (JWT_SECRET' # JWT_SECRET /\ usuarios # <<>>) => UNCHANGED tables

(* C21: init_db is idempotent.  On an empty store it creates exactly the   *)
(* two seed users, DirectorEjecutivoAndres (director, all) and             *)
(* Secretariosajhb1a (secretario), both active; run in any later reachable *)
(* state it adds no row and changes no row, so passwords, roles and activo *)
(* flags set since the first boot are kept.                                *)
C21_InitDbIdempotent == []InitDbResult /\ [][RebootKeepsStore]_vars

(* The process has been started again after a seed account was changed. *)
C21_RebootedAfterChange ==
    /\ JWT_SECRET[2] >= 2
    /\ \E i \in 1..2 :
           \/ usuarios[i].activo = 0
           \/ usuarios[i].password_hash = PBKDF2("", usuarios[i].salt)

(* The passwords and salts the hasher is tried on. *)
HashPasswords == {t \o Nuls(n) : t \in Texts, n \in 0..MaxNul}

HashSalts == {"salt_a", "salt_b"}

(* The hashes the program has stored, with the salt of each. *)
StoredHashes == {<<usuarios[i].password_hash, usuarios[i].salt>> : i \in 1..Len(usuarios)}

(* The hashes to try verify_password on: what hash_password returns for    *)
(* each password and salt, and what the program has stored.                *)
Hashed(P) == {<<hash_password(P, S).digest, S>> : S \in HashSalts}
             \cup {h \in StoredHashes : h[1] = hash_password(P, h[2]).digest}

(* C22, as stated: with (d, S) = hash_password(P, S), verify_password(P,   *)
(* d, S) is true and verify_password(P', d, S) is false whenever P'        *)
(* differs from P.                                                         *)
C22_OnlyTheSamePassword ==
    \A P \in HashPasswords, Q \in HashPasswords :
        \A h \in Hashed(P) :
            /\ verify_password(P, h[1], h[2])
            /\ Q # P => ~verify_password(Q, h[1], h[2])

(* P and Q are one text followed by NUL characters, any number each. *)
SameButNuls(P, Q) ==
    \E t \in Texts, n \in 0..MaxNul, m \in 0..MaxNul :
        P = t \o Nuls(n) /\ Q = t \o Nuls(m)

(* C22, amended: with (d, S) = hash_password(P, S), verify_password(P, d,  *)
(* S) is true; verify_password(P', d, S) is true as well when P' and P     *)
(* differ only in NUL characters at their end, and false for every other   *)
(* P'; hash_password with a salt supplied returns that salt, and its       *)
(* digest is the one the program stored for the same password and salt.    *)
C22_HashAndVerify ==
    \A P \in HashPasswords, Q \in HashPasswords :
        /\ \A S \in HashSalts : hash_password(P, S).salt = S
        /\ \A h \in Hashed(P) :
               /\ verify_password(P, h[1], h[2])
               /\ SameButNuls(P, Q) => verify_password(Q, h[1], h[2])
               /\ ~SameButNuls(P, Q) => ~verify_password(Q, h[1], h[2])

(* A user has logged in, so verify_password has accepted a password for    *)
(* the stored hash, which it also accepts with a NUL appended and refuses  *)
(* for another text.                                                       *)
C22_AcceptedAndRefused ==
    \E uid \in ActiveIds :
        /\ usuarios[uid].ultimo_acceso # NoDate
        /\ \E P \in Texts, Q \in Texts :
               /\ Accepts(uid, P)
               /\ Accepts(uid, P \o NUL)
               /\ ~Accepts(uid, Q)

-----------------------------------------------------------------------------
(* Properties of requests that name a missing or a deactivated user *)

(* Ids that match no usuarios row. *)
UnknownIds == {user_id \in TargetIds : user_id \notin 1..Len(usuarios)}

(* C27: an authorized PUT /api/users/:id or DELETE /api/users/:id whose id *)
(* matches no usuarios row answers 404 and leaves the store unchanged.     *)
C27_UnknownIdIs404 ==
    \A auth \in Headers : PassesGate(auth) =>
        \A user_id \in UnknownIds :
            /\ delete_user(auth, user_id).status = 404
            /\ delete_user(auth, user_id).usuarios = usuarios
            /\ \A data \in UpdateBodies \ {NoJson}, salt \in Salts :
                   /\ update_user(auth, user_id, data, salt).status = 404
                   /\ update_user(auth, user_id, data, salt).usuarios = usuarios

(* The user row a token was issued to. *)
Holder(tok) == usuarios[tok.payload.user_id]

(* A token of the running process, signed for a director, before its       *)
(* signed expiry.                                                          *)
LiveDirectorTokens ==
    {tok \in IssuedTokens : /\ tok.key = JWT_SECRET
                            /\ tok.payload.role = "director"
                            /\ clock < tok.payload.exp}

(* A step that leaves the signing key and the clock alone leaves the       *)
(* outcome of verify_token alone, for every token issued so far.           *)
GateIgnoresStore ==
    (JWT_SECRET' = JWT_SECRET /\ clock' = clock) =>
        \A tok \in IssuedTokens : verify_token(tok)' = verify_token(tok)

(* C28: the authorization gate looks at the token's signed claims, the     *)
(* signing key and the clock only.  No change of usuarios or sesiones      *)
(* changes its outcome, and a token issued to U as director, presented to  *)
(* the process that issued it before its signed expiry, is answered valid  *)
(* by /api/verify and authorizes GET, POST, PUT and DELETE /api/users also *)
(* after U has been deactivated or has lost the director role.             *)
C28_GateReadsTokenOnly ==
    /\ [](\A tok \in LiveDirectorTokens :
              /\ verify_token(tok) = tok.payload
              /\ \A strict \in BOOLEAN :
                     verify(Bearer(tok), NoJson, strict).body
                         = [valid |-> TRUE, user |-> tok.payload]
              /\ get_users(Bearer(tok)).status = 200
              /\ \A data \in CreateBodies, salt \in Salts :
                     create_user(Bearer(tok), data, salt).status # 403
              /\ \A user_id \in TargetIds :
                     /\ delete_user(Bearer(tok), user_id).status # 403
                     /\ \A data \in UpdateBodies, salt \in Salts :
                            update_user(Bearer(tok), user_id, data, salt).status # 403)
    /\ [][GateIgnoresStore]_vars

(* A director's token is live while its user row is deactivated, and       *)
(* another while its user row has the secretario role.                     *)
C28_HolderDemoted ==
    /\ \E tok \in LiveDirectorTokens : Holder(tok).activo = 0
    /\ \E tok \in LiveDirectorTokens : Holder(tok).role # "director"

(* The deactivated users. *)
InactiveIds == {i \in 1..Len(usuarios) : usuarios[i].activo = 0}

(* Login bodies for one username: the stored passwords, the empty one and  *)
(* a missing one.                                                          *)
LoginsFor(username) ==
    {[username |-> username, password |-> P] : P \in HashPasswords}
    \cup {[username |-> username]}

(* A row goes from activo = 0 to another value only by an authorized PUT   *)
(* on that id whose body carries activo.                                   *)
ReactivatedByPut ==
    \A i \in InactiveIds :
        (i \in 1..Len(usuarios') /\ usuarios'[i].activo # 0) =>
            \E auth \in Headers, data \in UpdateBodies \ {NoJson}, salt \in Salts :
                /\ PassesGate(auth)
                /\ "activo" \in DOMAIN data
                /\ data.activo = usuarios'[i].activo
                /\ usuarios' = update_user(auth, i, data, salt).usuarios

(* C29: while a user's activo flag is 0, a login with that username and    *)
(* any password, the stored one included, answers 401, and no login        *)
(* request for that username adds a session, returns a token or changes    *)
(* usuarios (ultimo_acceso included); the flag leaves 0 only by an         *)
(* authorized PUT that sets activo.                                        *)
C29_InactiveCannotLogIn ==
    /\ [](Running =>
            \A i \in InactiveIds :
                \A data \in LoginsFor(usuarios[i].username) :
                    \A r \in LoginResults(data) :
                        /\ r.status \in {400, 401}
                        /\ ~Falsy(Get(data, "password")) => r.status = 401
                        /\ r.body \in {[success |-> FALSE,
                                        error |-> "Credenciales incompletas"],
                                       [success |-> FALSE,
                                        error |-> "Credenciales invalidas"]}
                        /\ r.sesiones = sesiones
                        /\ r.usuarios = usuarios)
    /\ [][ReactivatedByPut]_vars

(* A user who has logged in is deactivated and the stored password is      *)
(* still the one of the login.                                             *)
C29_DeactivatedWithPassword ==
    \E i \in InactiveIds :
        /\ usuarios[i].ultimo_acceso # NoDate
        /\ \E P \in Texts : P # "" /\ Accepts(i, P)

-----------------------------------------------------------------------------
(* Properties of the encryption helpers *)

(* The token is decrypted by the process that encrypted it. *)
SameProcess == encrypted # NoToken /\ encrypted_with = AES_KEY

(* C23: within one process lifetime decrypt_data(encrypt_data(T)) = T for  *)
(* every text T, and decrypt_data of a corrupted or truncated token raises *)
(* an error and never returns a text other than T.                         *)
C23_RoundTripOrError ==
    SameProcess =>
        /\ Intact => decrypt_data(received) = Returns(plaintext)
        /\ ~Intact => ~decrypt_data(received).ok

-----------------------------------------------------------------------------
(* Properties of the sibling services *)

Answered(p) == requests[p].pc = "done"

(* C24: an accounting write (POST, PUT, DELETE /api/<tabla>) that hits a   *)
(* transient storage error is answered only after a later attempt has      *)
(* succeeded, or with 503 after max_retries attempts; 409 is the answer to *)
(* an integrity error.                                                     *)
C24_WritesRetried ==
    \A p \in Req :
        (Answered(p) /\ requests[p].kind \in Writes /\ requests[p].hit) =>
            \/ requests[p].status \in SuccessStatus(requests[p].kind) \cup {409}
            \/ requests[p].status = 503 /\ requests[p].attempt = max_retries

(* The statements of the with db_lock block. *)
Critical == {"connect", "execute", "commit", "close"}

InSection(p) == requests[p].kind \in ContaKinds /\ requests[p].pc \in Critical

Waiting(p) == requests[p].pc = "acquire"

(* C25: among any number of concurrent accounting CRUD requests at most    *)
(* one is inside the db_lock block (get_db, execute, commit, close); the   *)
(* lock is held by exactly the request inside, so it is free again on      *)
(* every way out of the block, SQL errors included; and a request waiting  *)
(* for the lock gets it.                                                   *)
C25_LockSerializes ==
    /\ [](\A p, q \in Req : (InSection(p) /\ InSection(q)) => p = q)
    /\ [](\A p \in Req : db_lock = p <=> InSection(p))
    /\ \A p \in Req : Waiting(p) ~> InSection(p)

(* A request waits for the lock while another, which get_db has failed    *)
(* once, is inside the block.                                              *)
C25_WaitedAndFailed ==
    \E p, q \in Req :
        /\ Waiting(p)
        /\ InSection(q)
        /\ requests[q].hit

(* C26: a handler that has answered has closed every connection it         *)
(* opened, on every path: success, early return and exception.             *)
C26_ConnectionsClosed ==
    \A p \in Req : Answered(p) => requests[p].open = 0

(* C30: the secretarial init_db never fails, whatever schema it starts     *)
(* from, and leaves the five tables present and documentos with the        *)
(* etiquetas column.                                                       *)
C30_InitDbFromAnySchema ==
    /\ secretarios # "crashed"
    /\ secretarios = "running" => schema = FullSchema

====
